---------------------------- MODULE Spec2Model ----------------------------
(***************************************************************************)
(* Model of handler.py: the RunPod serverless handler that validates an    *)
(* audio URL against an allow-list (anti-SSRF), downloads it into a        *)
(* temporary file, runs Faster Whisper on it and assembles segments_json.  *)
(*                                                                         *)
(* Python strings are sequences of one-character strings, so that strip,   *)
(* lower, split, endswith and join are computed and not assumed.           *)
(* Times (seconds, floats in the code) are integer microseconds.           *)
(***************************************************************************)
EXTENDS Integers, Sequences, FiniteSets, TLC

\* ------------------------------------------------------------------------
\* Bounds of the model
\* ------------------------------------------------------------------------

\* Subdomain labels ("x.") put in front of a host name: 0..MaxSubLabels.
MaxSubLabels == 1

\* ------------------------------------------------------------------------
\* Python string primitives
\* ------------------------------------------------------------------------

Upper == <<"A","B","C","D","E","F","G","H","I","J","K","L","M",
           "N","O","P","Q","R","S","T","U","V","W","X","Y","Z">>
Lower == <<"a","b","c","d","e","f","g","h","i","j","k","l","m",
           "n","o","p","q","r","s","t","u","v","w","x","y","z">>

\* one character of str.lower()
LowerChar(c) ==
    IF \E i \in 1..26 : Upper[i] = c
    THEN Lower[CHOOSE i \in 1..26 : Upper[i] = c]
    ELSE c

\* str.lower()
lower(s) == [i \in 1..Len(s) |-> LowerChar(s[i])]

\* the characters str.strip() removes
IsSpace(c) == c \in {" ", "\t", "\n"}

RECURSIVE lstrip(_)
lstrip(s) == IF s # <<>> /\ IsSpace(Head(s)) THEN lstrip(Tail(s)) ELSE s

RECURSIVE rstrip(_)
rstrip(s) ==
    IF s # <<>> /\ IsSpace(s[Len(s)]) THEN rstrip(SubSeq(s, 1, Len(s) - 1)) ELSE s

\* str.strip()
strip(s) == rstrip(lstrip(s))

\* str.endswith(suffix)
endswith(s, suffix) ==
    /\ Len(suffix) <= Len(s)
    /\ SubSeq(s, Len(s) - Len(suffix) + 1, Len(s)) = suffix

\* str.startswith(prefix)
startswith(s, prefix) ==
    /\ Len(prefix) <= Len(s)
    /\ SubSeq(s, 1, Len(prefix)) = prefix

\* str.split(sep) for a one-character separator: always at least one part
RECURSIVE split(_, _)
split(s, sep) ==
    IF \E i \in 1..Len(s) : s[i] = sep
    THEN LET i == CHOOSE k \in 1..Len(s) :
                     s[k] = sep /\ \A j \in 1..(k - 1) : s[j] # sep
         IN  <<SubSeq(s, 1, i - 1)>> \o split(SubSeq(s, i + 1, Len(s)), sep)
    ELSE <<s>>

\* " ".join(parts)
RECURSIVE join(_)
join(parts) ==
    IF parts = <<>> THEN <<>>
    ELSE IF Len(parts) = 1 THEN parts[1]
    ELSE parts[1] \o <<" ">> \o join(Tail(parts))

Range(f) == {f[i] : i \in DOMAIN f}

\* ------------------------------------------------------------------------
\* The allow-list registry (lines 27-49)
\* ------------------------------------------------------------------------

DEFAULT_ALLOWED_DOMAINS == <<
    <<"s","u","p","a","b","a","s","e",".","c","o">>,
    <<"s","u","p","a","b","a","s","e",".","i","n">>,
    <<"s","u","p","a","b","a","s","e",".","c","o","m">>,
    <<"f","i","l","e","s",".","l","a","w","i","a",".","a","p","p">> >>

DEFAULT_ALLOWED_DOMAIN_SUFFIXES == <<
    <<".","s","u","p","a","b","a","s","e",".","c","o">>,
    <<".","s","u","p","a","b","a","s","e",".","i","n">>,
    <<".","s","u","p","a","b","a","s","e",".","c","o","m">>,
    <<".","b","a","c","k","b","l","a","z","e","b","2",".","c","o","m">> >>

\* _parse_csv_env: raw is the value of the environment variable ("" when
\* unset); the entries are stripped and lowercased, empty ones dropped.
_parse_csv_env(raw) ==
    IF raw = <<>> THEN <<>>
    ELSE LET parts == split(raw, ",")
             kept  == SelectSeq(parts, LAMBDA x : strip(x) # <<>>)
         IN  [i \in 1..Len(kept) |-> lower(strip(kept[i]))]

\* sorted(set(defaults + overrides)): only membership and iteration over
\* all entries are used by the code, so the registry is kept as a set.
BuildAllowList(defaults, raw) == Range(defaults \o _parse_csv_env(raw))

\* ------------------------------------------------------------------------
\* ipaddress.ip_address on a host string (IPv4 dotted quads)
\* ------------------------------------------------------------------------

Digits == <<"0","1","2","3","4","5","6","7","8","9">>

IsDigit(c) == \E d \in 1..10 : Digits[d] = c

DigitVal(c) == (CHOOSE d \in 1..10 : Digits[d] = c) - 1

\* ipaddress._parse_octet: 1 to 3 decimal digits, no leading zero, <= 255
OctetOk(o) ==
    /\ o # <<>>
    /\ \A i \in 1..Len(o) : IsDigit(o[i])
    /\ Len(o) <= 3
    /\ (o = <<"0">> \/ o[1] # "0")
    /\ (IF Len(o) = 1 THEN DigitVal(o[1])
        ELSE IF Len(o) = 2 THEN 10 * DigitVal(o[1]) + DigitVal(o[2])
        ELSE 100 * DigitVal(o[1]) + 10 * DigitVal(o[2]) + DigitVal(o[3])) <= 255

OctetVal(o) ==
    IF Len(o) = 1 THEN DigitVal(o[1])
    ELSE IF Len(o) = 2 THEN 10 * DigitVal(o[1]) + DigitVal(o[2])
    ELSE 100 * DigitVal(o[1]) + 10 * DigitVal(o[2]) + DigitVal(o[3])

\* ip_address(hostname): the four octets, or <<>> for ValueError
ip_address(hostname) ==
    LET parts == split(hostname, ".")
    IN  IF Len(parts) = 4 /\ \A i \in 1..4 : OctetOk(parts[i])
        THEN [i \in 1..4 |-> OctetVal(parts[i])]
        ELSE <<>>

\* decimal text of an octet, and str(ip)
Dec(n) ==
    IF n < 10 THEN <<Digits[n + 1]>>
    ELSE IF n < 100 THEN <<Digits[(n \div 10) + 1], Digits[(n % 10) + 1]>>
    ELSE <<Digits[(n \div 100) + 1], Digits[((n \div 10) % 10) + 1],
           Digits[(n % 10) + 1]>>

IpStr(ip) == Dec(ip[1]) \o <<".">> \o Dec(ip[2]) \o <<".">> \o
             Dec(ip[3]) \o <<".">> \o Dec(ip[4])

Pow2(n) == IF n = 0 THEN 1 ELSE 2 ^ n

\* ip in network net = <<a, b, c, d, prefixlen>>, on the 16-bit halves
InNetwork(ip, net) ==
    LET hi  == ip[1] * 256 + ip[2]
        lo  == ip[3] * 256 + ip[4]
        nhi == net[1] * 256 + net[2]
        nlo == net[3] * 256 + net[4]
        len == net[5]
    IN  IF len <= 16
        THEN hi \div Pow2(16 - len) = nhi \div Pow2(16 - len)
        ELSE hi = nhi /\ lo \div Pow2(32 - len) = nlo \div Pow2(32 - len)

\* ipaddress._IPv4Constants._private_networks
PrivateNetworks == {
    <<0, 0, 0, 0, 8>>, <<10, 0, 0, 0, 8>>, <<127, 0, 0, 0, 8>>,
    <<169, 254, 0, 0, 16>>, <<172, 16, 0, 0, 12>>, <<192, 0, 0, 0, 29>>,
    <<192, 0, 0, 170, 31>>, <<192, 0, 2, 0, 24>>, <<192, 168, 0, 0, 16>>,
    <<198, 18, 0, 0, 15>>, <<198, 51, 100, 0, 24>>, <<203, 0, 113, 0, 24>>,
    <<240, 0, 0, 0, 4>>, <<255, 255, 255, 255, 32>> }

is_private(ip) == \E net \in PrivateNetworks : InNetwork(ip, net)
is_loopback(ip) == InNetwork(ip, <<127, 0, 0, 0, 8>>)
is_link_local(ip) == InNetwork(ip, <<169, 254, 0, 0, 16>>)
is_reserved(ip) == InNetwork(ip, <<240, 0, 0, 0, 4>>)

\* ------------------------------------------------------------------------
\* is_safe_url (lines 52-89)
\* ------------------------------------------------------------------------

\* A URL is what urlparse sees in it: the scheme and the host as written,
\* or invalid (urlparse raises ValueError).  urlparse lowercases both; a
\* missing host gives a falsy hostname (None or ""), here <<>>.
urlparse(url) ==
    [raised   |-> url.invalid,
     scheme   |-> lower(url.scheme),
     hostname |-> lower(url.host)]

HTTP_SCHEMES == { <<"h","t","t","p">>, <<"h","t","t","p","s">> }

METADATA_PREFIX == <<"1","6","9",".","2","5","4",".">>

\* lines 68-75: the verdict of the IP check, or "pass" when it does not deny
IpCheck(hostname) ==
    LET ip == ip_address(hostname)
    IN  IF ip = <<>> THEN "pass"
        ELSE IF is_private(ip) \/ is_loopback(ip) \/ is_link_local(ip)
                \/ is_reserved(ip)
             THEN "IP no permitida"
        ELSE IF startswith(IpStr(ip), METADATA_PREFIX)
             THEN "IP de metadata bloqueada"
        ELSE "pass"

\* AllowListCheck failing open: the final return allows.
AllowListCheck_failOpen(hostname, domains, suffixes) ==
    LET hostname_lower == lower(hostname)
    IN  IF hostname_lower \in domains
        THEN [allowed |-> TRUE, reason |-> "Dominio permitido"]
        ELSE IF \E suffix \in suffixes : endswith(hostname_lower, suffix)
        THEN [allowed |-> TRUE, reason |-> "Subdominio permitido"]
        ELSE [allowed |-> TRUE, reason |-> "Dominio no permitido"]

\* AllowListCheck without the suffix loop of lines 82-84.
AllowListCheck_noSuffix(hostname, domains, suffixes) ==
    LET hostname_lower == lower(hostname)
    IN  IF hostname_lower \in domains
        THEN [allowed |-> TRUE, reason |-> "Dominio permitido"]
        ELSE [allowed |-> FALSE, reason |-> "Dominio no permitido"]

\* lines 77-86: exact match, then suffix match, else deny
AllowListCheck(hostname, domains, suffixes) ==
    LET hostname_lower == lower(hostname)
    IN  IF hostname_lower \in domains
        THEN [allowed |-> TRUE, reason |-> "Dominio permitido"]
        ELSE IF \E suffix \in suffixes : endswith(hostname_lower, suffix)
        THEN [allowed |-> TRUE, reason |-> "Subdominio permitido"]
        ELSE [allowed |-> FALSE, reason |-> "Dominio no permitido"]

\* is_safe_url consulting the allow-list before the IP check.
is_safe_url_listFirst(url, domains, suffixes) ==
    LET parsed == urlparse(url)
    IN  IF parsed.raised
        THEN [allowed |-> FALSE, reason |-> "Error validando URL"]
        ELSE IF parsed.scheme \notin HTTP_SCHEMES
        THEN [allowed |-> FALSE, reason |-> "Esquema no permitido"]
        ELSE IF parsed.hostname = <<>>
        THEN [allowed |-> FALSE, reason |-> "URL sin hostname"]
        ELSE IF AllowListCheck(parsed.hostname, domains, suffixes).allowed
        THEN AllowListCheck(parsed.hostname, domains, suffixes)
        ELSE IF IpCheck(parsed.hostname) # "pass"
        THEN [allowed |-> FALSE, reason |-> IpCheck(parsed.hostname)]
        ELSE AllowListCheck(parsed.hostname, domains, suffixes)

is_safe_url(url, domains, suffixes) ==
    LET parsed == urlparse(url)
    IN  IF parsed.raised
        THEN [allowed |-> FALSE, reason |-> "Error validando URL"]
        ELSE IF parsed.scheme \notin HTTP_SCHEMES
        THEN [allowed |-> FALSE, reason |-> "Esquema no permitido"]
        ELSE IF parsed.hostname = <<>>
        THEN [allowed |-> FALSE, reason |-> "URL sin hostname"]
        ELSE IF IpCheck(parsed.hostname) # "pass"
        THEN [allowed |-> FALSE, reason |-> IpCheck(parsed.hostname)]
        ELSE AllowListCheck(parsed.hostname, domains, suffixes)

\* ------------------------------------------------------------------------
\* Inputs of the validator
\* ------------------------------------------------------------------------

\* LAWIA_ALLOWED_AUDIO_DOMAINS: unset, or an operator override
EnvDomainValues == {
    <<>>,
    <<" ","E","x","a","m","p","l","e",".","C","O","M"," ",",",
      "1","0",".","0",".","0",".","1">>,
    <<"1","6","9",".","2","5","4",".","1","6","9",".","2","5","4",",",
      "8",".","0",".","0",".","1",","," ","1","2","7",".","0",".","0",".","1",
      " ",",",",">> }

\* LAWIA_ALLOWED_AUDIO_SUFFIXES: unset, or an operator override
EnvSuffixValues == {
    <<>>,
    <<".","E","x","a","m","p","l","e",".","o","r","g">>,
    <<".","0",".","1"," ",","," ",".","2","5","4">> }

Schemes == { <<"h","t","t","p">>, <<"h","t","t","p","s">>, <<"H","T","T","P">>,
             <<"H","t","t","p","S">>, <<"f","t","p">>, <<"f","i","l","e">>,
             <<>> }

BaseNames == {
    <<"s","u","p","a","b","a","s","e",".","c","o">>,
    <<"S","U","P","A","B","A","S","E",".","I","N">>,
    <<"F","i","l","e","s",".","L","a","w","i","a",".","A","p","p">>,
    <<"x","s","u","p","a","b","a","s","e",".","c","o">>,
    <<"s","u","p","a","b","a","s","e",".","c","o",".","e","v","i","l",".","c","o","m">>,
    <<"b","a","c","k","b","l","a","z","e","b","2",".","c","o","m">>,
    <<"e","v","i","l",".","c","o","m">>,
    <<"e","x","a","m","p","l","e",".","c","o","m">>,
    <<"E","X","A","M","P","L","E",".","c","o","m">>,
    <<"e","x","a","m","p","l","e",".","o","r","g">>,
    <<"C","D","N",".","E","x","a","m","p","l","e",".","O","r","g">> }

RECURSIVE SubLabels(_, _)
SubLabels(k, name) == IF k = 0 THEN name ELSE <<"x", ".">> \o SubLabels(k - 1, name)

NameHosts == { SubLabels(k, n) : k \in 0..MaxSubLabels, n \in BaseNames }

IpHosts == { IpStr(<<a, b, cd[1], cd[2]>>) :
                a \in {8, 10, 127, 169, 172, 192, 240},
                b \in {0, 16, 32, 168, 254},
                cd \in { <<0, 1>>, <<169, 254>> } }

\* hosts that look like addresses but are not (ValueError in ip_address)
OddHosts == { <<"2","5","6",".","0",".","0",".","1">>,
              <<"0","1","0",".","0",".","0",".","1">>,
              <<"1",".","2",".","3">>,
              <<>> }

Urls == { [scheme |-> s, host |-> h, invalid |-> FALSE] :
             s \in Schemes, h \in NameHosts \cup IpHosts \cup OddHosts }
        \cup { [scheme |-> <<"h","t","t","p">>, host |-> <<"[",":",":","1">>,
                invalid |-> TRUE] }

\* ------------------------------------------------------------------------
\* Result assembly (lines 166-197), as pure operators
\* ------------------------------------------------------------------------

\* Bounds of the handler model
MaxSegs == 2
MaxChunks == 1

\* round(x, 3) of a time in seconds: microseconds to thousandths, to nearest,
\* ties to even
round3(m) ==
    LET q == m \div 1000
        r == m % 1000
    IN  IF r > 500 THEN q + 1
        ELSE IF r < 500 THEN q
        ELSE IF q % 2 = 0 THEN q ELSE q + 1

\* int(x * 1000): the product truncated toward zero
int_ms(m) == IF m >= 0 THEN m \div 1000 ELSE -((-m) \div 1000)

\* A word entry that puts 0 where the engine gives no probability.
WordEntry_fabricated(w) ==
    [word        |-> w.word,
     start       |-> round3(w.start),
     end         |-> round3(w.end),
     probability |-> IF w.has_probability THEN <<round3(w.probability)>>
                     ELSE <<0>>]

\* lines 185-190: one entry of "words"; probability is <<p>> for the number
\* p and <<>> for None
WordEntry(w) ==
    [word        |-> w.word,
     start       |-> round3(w.start),
     end         |-> round3(w.end),
     probability |-> IF w.has_probability THEN <<round3(w.probability)>>
                     ELSE <<>>]

\* lines 173-194: segment_data of the segment at index idx
SegmentData(idx, seg, word_timestamps) ==
    LET segment_data ==
            [id       |-> idx,
             start    |-> round3(seg.start),
             end      |-> round3(seg.end),
             start_ms |-> int_ms(seg.start),
             end_ms   |-> int_ms(seg.end),
             text     |-> strip(seg.text)]
    IN  IF word_timestamps /\ seg.has_words /\ seg.words # <<>>
        THEN segment_data @@
             ("words" :> [k \in 1..Len(seg.words) |-> WordEntry(seg.words[k])])
        ELSE segment_data

\* The loop of line 172 with enumerate counting from 1.
BuildSegmentsJson_idFromOne(segments_list, word_timestamps) ==
    [k \in 1..Len(segments_list) |->
        SegmentData(k, segments_list[k], word_timestamps)]

\* lines 171-194: segments_json
BuildSegmentsJson(segments_list, word_timestamps) ==
    [k \in 1..Len(segments_list) |->
        SegmentData(k - 1, segments_list[k], word_timestamps)]

\* line 167: text
BuildText(segments_list) ==
    join([k \in 1..Len(segments_list) |-> strip(segments_list[k].text)])

\* line 197: duration
Duration(segments_list) ==
    IF segments_list # <<>> THEN segments_list[Len(segments_list)].end ELSE 0

\* ------------------------------------------------------------------------
\* Inputs of the handler
\* ------------------------------------------------------------------------

\* engine words: has_probability is hasattr(w, 'probability')
Word1 == [word |-> <<" ","q","u","e">>, start |-> 2501000, end |-> 3000400,
          has_probability |-> TRUE, probability |-> 912600]
Word2 == [word |-> <<" ","t","a","l">>, start |-> 3000400, end |-> 4999000,
          has_probability |-> FALSE, probability |-> 0]

\* engine segments: has_words is hasattr(seg, 'words'); text_is_none marks a
\* segment whose text is None, on which seg.text.strip() raises
SegSet == {
    [start |-> 0, end |-> 2500000, text |-> <<" ","H","o","l","a"," ">>,
     has_words |-> FALSE, words |-> <<>>, text_is_none |-> FALSE],
    [start |-> 2501000, end |-> 4999000, text |-> <<" ","q","u","e"," ","t","a","l","\n">>,
     has_words |-> TRUE, words |-> <<Word1, Word2>>, text_is_none |-> FALSE],
    [start |-> 5000000, end |-> 7250000, text |-> <<" ">>,
     has_words |-> TRUE, words |-> <<>>, text_is_none |-> FALSE],
    [start |-> 2500600, end |-> 4999500, text |-> <<"x">>,
     has_words |-> TRUE, words |-> <<Word1>>, text_is_none |-> FALSE],
    [start |-> 0, end |-> 0, text |-> <<>>,
     has_words |-> FALSE, words |-> <<>>, text_is_none |-> TRUE] }

SegSeqs == UNION { [1..n -> SegSet] : n \in 0..MaxSegs }

\* TranscriptionInfo: language_probability is <<p>> or <<>> for None, on
\* which the format of line 203 raises
Infos == { [language |-> "es", language_probability |-> <<990000>>],
           [language |-> "en", language_probability |-> <<>>] }

HandlerUrls == {
    [scheme |-> <<"h","t","t","p","s">>,
     host |-> <<"f","i","l","e","s",".","l","a","w","i","a",".","a","p","p">>,
     invalid |-> FALSE],
    [scheme |-> <<"h","t","t","p">>,
     host |-> <<"1","6","9",".","2","5","4",".","1","6","9",".","2","5","4">>,
     invalid |-> FALSE],
    [scheme |-> <<"f","t","p">>,
     host |-> <<"s","u","p","a","b","a","s","e",".","c","o">>,
     invalid |-> FALSE],
    [scheme |-> <<"h","t","t","p">>, host |-> <<"[",":",":","1">>,
     invalid |-> TRUE] }

\* The event of an invocation.  kind: "not_dict" (event.get raises),
\* "no_input" (no "input" key), "input_not_dict" (input_data.get raises),
\* "ok".  audio_url is <<>> when missing, None or "", else <<u>>; language
\* is <<>> when missing.
Events ==
    { [kind |-> k, audio_url |-> <<>>, language |-> <<>>,
       word_timestamps |-> FALSE] :
         k \in {"not_dict", "no_input", "input_not_dict"} }
    \cup
    { [kind |-> "ok", audio_url |-> a, language |-> l, word_timestamps |-> w] :
         a \in {<<>>} \cup { <<u>> : u \in HandlerUrls },
         l \in {<<>>, <<"en">>},
         w \in BOOLEAN }

\* ------------------------------------------------------------------------
\* State
\* ------------------------------------------------------------------------

VARIABLES
    envDomains,               \* os.getenv("LAWIA_ALLOWED_AUDIO_DOMAINS", "")
    envSuffixes,              \* os.getenv("LAWIA_ALLOWED_AUDIO_SUFFIXES", "")
    ALLOWED_DOMAINS,          \* line 48
    ALLOWED_DOMAIN_SUFFIXES,  \* line 49
    url,                      \* the argument of a direct is_safe_url call
    verdict,                  \* <<>> before that call, <<v>> once it returned v
    device,                   \* line 94: "cuda" or "cpu"
    event,                    \* the argument of handler
    pc,                       \* where handler is
    audio_url,                \* locals of handler; <<>> while unbound
    language,
    word_timestamps,
    temp_path,                \* <<>> while 'temp_path' is not in locals()
    info,
    segments_list,
    text,
    segments_json,
    duration,
    exc,                      \* e of line 222: <<>> or <<name of the exception>>
    result,                   \* <<>> or <<the document handler returned>>
    fileExists,               \* the temporary file is on disk
    chunks,                   \* chunks written to it
    requested,                \* URLs given to requests.get
    checked,                  \* is_safe_url calls of handler: [url, allowed]
    engineCalls,              \* arguments of the model.transcribe calls
    unlinkLog,                \* os.unlink calls: [site, ok]
    trace                     \* the stages entered, in order

regVars == <<envDomains, envSuffixes, ALLOWED_DOMAINS, ALLOWED_DOMAIN_SUFFIXES>>
urlVars == <<url, verdict>>
inVars == <<device, event>>
localVars == <<audio_url, language, word_timestamps, temp_path, info,
               segments_list, text, segments_json, duration>>
worldVars == <<fileExists, chunks, requested, checked, engineCalls, unlinkLog,
               trace>>

vars == <<regVars, urlVars, inVars, localVars, worldVars, pc, exc, result>>

\* The module has been imported: the registry is built from the environment.
InitRegistry(domainValues, suffixValues) ==
    /\ envDomains \in domainValues
    /\ envSuffixes \in suffixValues
    /\ ALLOWED_DOMAINS = BuildAllowList(DEFAULT_ALLOWED_DOMAINS, envDomains)
    /\ ALLOWED_DOMAIN_SUFFIXES =
           BuildAllowList(DEFAULT_ALLOWED_DOMAIN_SUFFIXES, envSuffixes)

\* lines 99-108
compute_type(dev) == IF dev = "cuda" THEN "float16" ELSE "int8"

\* handler has not bound any local and touched nothing
InitHandler(events, position) ==
    /\ device \in {"cuda", "cpu"}
    /\ event \in events
    /\ pc = position
    /\ audio_url = <<>>
    /\ language = <<>>
    /\ word_timestamps = FALSE
    /\ temp_path = <<>>
    /\ info = <<>>
    /\ segments_list = <<>>
    /\ text = <<>>
    /\ segments_json = <<>>
    /\ duration = 0
    /\ exc = <<>>
    /\ result = <<>>
    /\ fileExists = FALSE
    /\ chunks = 0
    /\ requested = <<>>
    /\ checked = <<>>
    /\ engineCalls = <<>>
    /\ unlinkLog = <<>>
    /\ trace = <<>>

\* ------------------------------------------------------------------------
\* is_safe_url called on its own
\* ------------------------------------------------------------------------

IdleEvent == [kind |-> "no_input", audio_url |-> <<>>, language |-> <<>>,
              word_timestamps |-> FALSE]

InitUrl ==
    /\ InitRegistry(EnvDomainValues, EnvSuffixValues)
    /\ url \in Urls
    /\ verdict = <<>>
    /\ InitHandler({IdleEvent}, "idle")
    /\ device = "cpu"

\* The call of is_safe_url(url); the registry is never written after import.
CallIsSafeUrl ==
    /\ verdict = <<>>
    /\ verdict' = <<is_safe_url(url, ALLOWED_DOMAINS, ALLOWED_DOMAIN_SUFFIXES)>>
    /\ UNCHANGED <<regVars, url, inVars, localVars, worldVars, pc, exc, result>>

NextUrl == CallIsSafeUrl

SpecUrl == InitUrl /\ [][NextUrl]_vars

\* ------------------------------------------------------------------------
\* handler (lines 121-226), one action per stage
\* ------------------------------------------------------------------------

IdleUrl == [scheme |-> <<>>, host |-> <<>>, invalid |-> FALSE]

Init ==
    /\ InitRegistry(EnvDomainValues, {<<>>})
    /\ url = IdleUrl
    /\ verdict = <<>>
    /\ InitHandler(Events, "start")

\* an exception raised inside the try block: control goes to line 222
Raise(name) ==
    /\ pc' = "except"
    /\ exc' = <<name>>
    /\ result' = result

\* return of a document
Return(doc) ==
    /\ pc' = "returned"
    /\ result' = <<doc>>
    /\ exc' = exc

Goto(position) ==
    /\ pc' = position
    /\ exc' = exc
    /\ result' = result

\* lines 123-129
ReadInput ==
    /\ pc = "start"
    /\ IF event.kind \in {"not_dict", "input_not_dict"}
       THEN /\ Raise("AttributeError")
            /\ UNCHANGED localVars
       ELSE /\ audio_url' = event.audio_url
            /\ language' = IF event.kind = "no_input" \/ event.language = <<>>
                           THEN <<"es">> ELSE event.language
            /\ UNCHANGED <<word_timestamps, temp_path, info, segments_list,
                           text, segments_json, duration>>
            /\ IF event.kind = "no_input" \/ event.audio_url = <<>>
               THEN Return([error |-> <<"audio_url es requerido">>])
               ELSE Goto("validate")
    /\ UNCHANGED <<regVars, urlVars, inVars, worldVars>>

\* lines 132-135 with the verdict ignored.
ValidateUrl_ignoresVerdict ==
    /\ pc = "validate"
    /\ LET v == is_safe_url(audio_url[1], ALLOWED_DOMAINS, ALLOWED_DOMAIN_SUFFIXES)
       IN  /\ checked' = Append(checked, [url |-> audio_url[1], allowed |-> v.allowed])
           /\ trace' = Append(trace, "validate")
           /\ Goto("get")
    /\ UNCHANGED <<regVars, urlVars, inVars, localVars, fileExists, chunks,
                   requested, engineCalls, unlinkLog>>

\* lines 132-135
ValidateUrl ==
    /\ pc = "validate"
    /\ LET v == is_safe_url(audio_url[1], ALLOWED_DOMAINS, ALLOWED_DOMAIN_SUFFIXES)
       IN  /\ checked' = Append(checked, [url |-> audio_url[1], allowed |-> v.allowed])
           /\ trace' = Append(trace, "validate")
           /\ IF ~v.allowed
              THEN Return([error |-> <<"URL no permitida", v.reason>>])
              ELSE Goto("get")
    /\ UNCHANGED <<regVars, urlVars, inVars, localVars, fileExists, chunks,
                   requested, engineCalls, unlinkLog>>

\* lines 138-139: requests.get and raise_for_status
HttpGet ==
    /\ pc = "get"
    /\ requested' = Append(requested, audio_url[1])
    /\ trace' = Append(trace, "get")
    /\ \E outcome \in {"ok", "ConnectionError", "Timeout", "HTTPError"} :
          IF outcome = "ok" THEN Goto("mktemp") ELSE Raise(outcome)
    /\ UNCHANGED <<regVars, urlVars, inVars, localVars, fileExists, chunks,
                   checked, engineCalls, unlinkLog>>

\* line 141: NamedTemporaryFile(suffix=".mp3", delete=False)
CreateTempFile ==
    /\ pc = "mktemp"
    /\ \E created \in BOOLEAN :
          IF created
          THEN /\ fileExists' = TRUE
               /\ trace' = Append(trace, "tempfile")
               /\ Goto("stream")
          ELSE /\ Raise("OSError")
               /\ UNCHANGED <<fileExists, trace>>
    /\ UNCHANGED <<regVars, urlVars, inVars, localVars, chunks, requested,
                   checked, engineCalls, unlinkLog>>

\* lines 142-143: one chunk received and written
WriteChunk ==
    /\ pc = "stream"
    /\ chunks < MaxChunks
    /\ chunks' = chunks + 1
    /\ UNCHANGED <<regVars, urlVars, inVars, localVars, fileExists, requested,
                   checked, engineCalls, unlinkLog, trace, pc, exc, result>>

\* lines 142-143: iter_content or f.write raises; the with block closes the
\* file, which stays on disk (delete=False), and line 144 is not reached
StreamFails ==
    /\ pc = "stream"
    /\ \E name \in {"ChunkedEncodingError", "OSError"} : Raise(name)
    /\ UNCHANGED <<regVars, urlVars, inVars, localVars, worldVars>>

\* line 144: the body is complete, temp_path is bound
StreamEnds ==
    /\ pc = "stream"
    /\ temp_path' = <<"tmp.mp3">>
    /\ Goto("transcribe")
    /\ UNCHANGED <<regVars, urlVars, inVars, audio_url, language,
                   word_timestamps, info, segments_list, text, segments_json,
                   duration, worldVars>>

\* lines 147-163: model.transcribe returns a lazy generator and info, or raises
Transcribe ==
    /\ pc = "transcribe"
    /\ word_timestamps' = event.word_timestamps
    /\ engineCalls' = Append(engineCalls,
           [path |-> temp_path[1], language |-> language[1],
            task |-> "transcribe", word_timestamps |-> event.word_timestamps,
            fileExists |-> fileExists])
    /\ trace' = Append(trace, "engine")
    /\ \E returns \in BOOLEAN :
          IF returns
          THEN /\ \E i \in Infos : info' = <<i>>
               /\ Goto("materialize")
          ELSE /\ Raise("EngineError")
               /\ info' = info
    /\ UNCHANGED <<regVars, urlVars, inVars, audio_url, language, temp_path,
                   segments_list, text, segments_json, duration, fileExists,
                   chunks, requested, checked, unlinkLog>>

\* line 166: list(segments) runs the decoding, which may raise
Materialize ==
    /\ pc = "materialize"
    /\ \E ok \in BOOLEAN :
          IF ok
          THEN /\ \E segs \in SegSeqs : segments_list' = segs
               /\ Goto("assemble")
          ELSE /\ Raise("EngineError")
               /\ segments_list' = segments_list
    /\ UNCHANGED <<regVars, urlVars, inVars, audio_url, language,
                   word_timestamps, temp_path, info, text, segments_json,
                   duration, worldVars>>

\* lines 167-197: text, segments_json, duration
Assemble ==
    /\ pc = "assemble"
    /\ IF \E k \in 1..Len(segments_list) : segments_list[k].text_is_none
       THEN /\ Raise("AttributeError")
            /\ UNCHANGED <<text, segments_json, duration, trace>>
       ELSE /\ text' = BuildText(segments_list)
            /\ segments_json' = BuildSegmentsJson(segments_list, word_timestamps)
            /\ duration' = Duration(segments_list)
            /\ trace' = Append(trace, "assemble")
            /\ Goto("unlink")
    /\ UNCHANGED <<regVars, urlVars, inVars, audio_url, language,
                   word_timestamps, temp_path, info, segments_list, fileExists,
                   chunks, requested, checked, engineCalls, unlinkLog>>

\* lines 199-200: os.unlink may raise OSError
UnlinkOnSuccess ==
    /\ pc = "unlink"
    /\ IF fileExists
       THEN \E ok \in BOOLEAN :
               /\ unlinkLog' = Append(unlinkLog, [site |-> "success", ok |-> ok])
               /\ IF ok
                  THEN fileExists' = FALSE /\ Goto("log")
                  ELSE fileExists' = fileExists /\ Raise("OSError")
       ELSE /\ Goto("log")
            /\ UNCHANGED <<unlinkLog, fileExists>>
    /\ UNCHANGED <<regVars, urlVars, inVars, localVars, chunks, requested,
                   checked, engineCalls, trace>>

\* the document of lines 205-220
SuccessDocument ==
    [text                 |-> text,
     transcription        |-> text,
     language             |-> info[1].language,
     language_probability |-> info[1].language_probability,
     duration             |-> duration,
     segments_count       |-> Len(segments_json),
     segments_json        |-> segments_json,
     has_word_timestamps  |-> word_timestamps,
     status               |-> "completed",
     device               |-> device,
     compute_type         |-> compute_type(device),
     model                |-> "faster-whisper-large-v3"]

\* lines 202-220: the format of line 203 raises on a None probability
LogAndReturn ==
    /\ pc = "log"
    /\ IF info[1].language_probability = <<>>
       THEN Raise("TypeError")
       ELSE Return(SuccessDocument)
    /\ UNCHANGED <<regVars, urlVars, inVars, localVars, worldVars>>

\* lines 222-226 without the os.path.exists test.
Except_noExistsCheck ==
    /\ pc = "except"
    /\ IF temp_path # <<>>
       THEN \E ok \in BOOLEAN :
               /\ unlinkLog' = Append(unlinkLog,
                                      [site |-> "error", ok |-> ok /\ fileExists])
               /\ IF ok /\ fileExists
                  THEN fileExists' = FALSE /\ Return([error |-> exc])
                  ELSE fileExists' = fileExists /\ Goto("raised")
       ELSE /\ Return([error |-> exc])
            /\ UNCHANGED <<unlinkLog, fileExists>>
    /\ UNCHANGED <<regVars, urlVars, inVars, localVars, chunks, requested,
                   checked, engineCalls, trace>>

\* lines 222-226: the unlink of line 225 is not in a try block, so an OSError
\* from it leaves handler
Except ==
    /\ pc = "except"
    /\ IF temp_path # <<>> /\ fileExists
       THEN \E ok \in BOOLEAN :
               /\ unlinkLog' = Append(unlinkLog, [site |-> "error", ok |-> ok])
               /\ IF ok
                  THEN fileExists' = FALSE /\ Return([error |-> exc])
                  ELSE fileExists' = fileExists /\ Goto("raised")
       ELSE /\ Return([error |-> exc])
            /\ UNCHANGED <<unlinkLog, fileExists>>
    /\ UNCHANGED <<regVars, urlVars, inVars, localVars, chunks, requested,
                   checked, engineCalls, trace>>

Next ==
    \/ ReadInput
    \/ ValidateUrl
    \/ HttpGet
    \/ CreateTempFile
    \/ WriteChunk
    \/ StreamFails
    \/ StreamEnds
    \/ Transcribe
    \/ Materialize
    \/ Assemble
    \/ UnlinkOnSuccess
    \/ LogAndReturn
    \/ Except

Spec == Init /\ [][Next]_vars

\* ------------------------------------------------------------------------
\* Properties of is_safe_url
\* ------------------------------------------------------------------------

Called == verdict # <<>>
Allowed == Called /\ verdict[1].allowed

\* the scheme is http or https (urlparse reads schemes case-insensitively)
SchemeIsHttp(u) == ~u.invalid /\ lower(u.scheme) \in HTTP_SCHEMES

\* h = p \o suffix for some p
HasSuffix(h, suffix) ==
    \E k \in 0..Len(h) : [i \in 1..(Len(h) - k) |-> h[k + i]] = suffix

\* the lowercased host is in ALLOWED_DOMAINS or ends with an allowed suffix
HostListed(u) ==
    \/ lower(u.host) \in ALLOWED_DOMAINS
    \/ \E suffix \in ALLOWED_DOMAIN_SUFFIXES : HasSuffix(lower(u.host), suffix)

\* the host is a literal IPv4 address that is private, loopback, link-local
\* or reserved, or lies in 169.254.0.0/16
HostIsBlockedIp(u) ==
    LET ip == ip_address(lower(u.host))
    IN  /\ ip # <<>>
        /\ \/ is_private(ip) \/ is_loopback(ip)
           \/ is_link_local(ip) \/ is_reserved(ip)
           \/ (ip[1] = 169 /\ ip[2] = 254)

\* C4: deny by default: is_safe_url allows only a URL whose scheme is http or
\* https and whose lowercased hostname is in ALLOWED_DOMAINS or ends with a
\* member of ALLOWED_DOMAIN_SUFFIXES; a URL that fails to parse is denied.
C4_DenyByDefault == Allowed => (SchemeIsHttp(url) /\ HostListed(url))

\* C4 witness: a URL with a mixed-case scheme was allowed through a suffix.
C4_Witness ==
    /\ Allowed
    /\ lower(url.host) \notin ALLOWED_DOMAINS
    /\ url.scheme = <<"H","t","t","p","S">>

\* C5: a literal private, loopback, link-local or reserved IP host (all of
\* 169.254.0.0/16 included) is denied whatever the registry lists.
C5_BlockedIpDenied == (Called /\ HostIsBlockedIp(url)) => ~verdict[1].allowed

\* C5 witness: an http URL to a blocked address that the operator override
\* lists as an exact host was denied.
C5_Witness ==
    /\ Called
    /\ SchemeIsHttp(url)
    /\ HostIsBlockedIp(url)
    /\ url.host \in ALLOWED_DOMAINS
    /\ ~verdict[1].allowed

\* C6 as stated: every URL whose host is listed (exactly or by suffix,
\* case-insensitively) is allowed.
C6_ListedAllowed_Original == (Called /\ HostListed(url)) => verdict[1].allowed

\* C6 amended: every URL that parses, has scheme http or https, and whose
\* host is listed and is not a blocked literal IP address, is allowed.
C6_ListedAllowed ==
    (Called /\ SchemeIsHttp(url) /\ HostListed(url) /\ ~HostIsBlockedIp(url))
        => verdict[1].allowed

\* C6 witness: a host written in upper case was allowed through a suffix
\* that comes from the operator override.
C6_Witness ==
    /\ Allowed
    /\ url.host # lower(url.host)
    /\ lower(url.host) \notin ALLOWED_DOMAINS
    /\ \E suffix \in ALLOWED_DOMAIN_SUFFIXES :
           /\ suffix \notin Range(DEFAULT_ALLOWED_DOMAIN_SUFFIXES)
           /\ HasSuffix(lower(url.host), suffix)

\* ------------------------------------------------------------------------
\* Properties of handler
\* ------------------------------------------------------------------------

\* handler is over: it returned a document, or an exception left it
Terminated == pc \in {"returned", "raised"}

IsErrorEnvelope(doc) == DOMAIN doc = {"error"}

IsSuccessDocument(doc) == "status" \in DOMAIN doc /\ doc.status = "completed"

ReturnedSuccess == pc = "returned" /\ result # <<>> /\ IsSuccessDocument(result[1])

ReturnedError == pc = "returned" /\ result # <<>> /\ IsErrorEnvelope(result[1])

\* C1: whatever stage fails, a temporary file created by the invocation no
\* longer exists when handler returns.
C1_NoTempFileLeft == Terminated => ~fileExists

StageOrder == <<"validate", "get", "tempfile", "engine", "assemble">>

\* the event carries no usable audio_url
UrlMissing == event.kind # "ok" \/ event.audio_url = <<>>

\* is_safe_url denies the event's audio_url
UrlDenied ==
    /\ ~UrlMissing
    /\ ~is_safe_url(event.audio_url[1], ALLOWED_DOMAINS,
                    ALLOWED_DOMAIN_SUFFIXES).allowed

\* C2: the stages run in the order validate, download, transcribe, assemble;
\* every GET is for the audio_url that is_safe_url allowed just before; and
\* with audio_url missing, empty or denied, handler returns an error without
\* any request, temporary file or engine call.
C2_StrictOrder ==
    /\ Len(trace) <= Len(StageOrder)
    /\ \A i \in DOMAIN trace : trace[i] = StageOrder[i]
    /\ \A i \in DOMAIN requested :
          /\ i = 1
          /\ requested[i] = event.audio_url[1]
          /\ Len(checked) = 1
          /\ checked[1].url = requested[i]
          /\ checked[1].allowed
    /\ (UrlMissing \/ UrlDenied) =>
          /\ requested = <<>>
          /\ ~fileExists
          /\ "tempfile" \notin Range(trace)
          /\ engineCalls = <<>>
          /\ Terminated => ReturnedError

\* C2 witness: all four stages ran for an allowed URL and handler returned.
C2_Witness ==
    /\ ReturnedSuccess
    /\ trace = StageOrder
    /\ requested = event.audio_url
    /\ checked[1].allowed

\* C3: handler always ends by returning a success document with status
\* "completed" or an error envelope whose only field is error; no exception
\* leaves it.
C3_AlwaysADocument == Terminated => (ReturnedSuccess \/ ReturnedError)

\* C7: the file is unlinked at most once, no unlink is attempted after a
\* successful one, and none happens before the engine call and the assembly
\* are over (completed, or ended by an exception).
C7_AtMostOneUnlink ==
    /\ Cardinality({i \in DOMAIN unlinkLog : unlinkLog[i].ok}) <= 1
    /\ \A i \in DOMAIN unlinkLog : unlinkLog[i].ok => i = Len(unlinkLog)
    /\ \A i \in DOMAIN unlinkLog :
          /\ "engine" \in Range(trace)
          /\ pc # "materialize" /\ pc # "assemble"
          /\ unlinkLog[i].site = "success" => "assemble" \in Range(trace)
          /\ unlinkLog[i].site = "error" => exc # <<>>

\* C7 witness: line 203 raised after the deletion of lines 199-200, the error
\* path ran, and the only unlink is the successful one.
C7_Witness ==
    /\ ReturnedError
    /\ result[1].error = <<"TypeError">>
    /\ unlinkLog = <<[site |-> "success", ok |-> TRUE]>>

\* t is raw without its leading and trailing whitespace
IsTrimOf(t, raw) ==
    /\ (t # <<>> => ~IsSpace(t[1]) /\ ~IsSpace(t[Len(t)]))
    /\ \E a \in 0..Len(raw) :
          /\ a + Len(t) <= Len(raw)
          /\ \A i \in 1..Len(t) : raw[a + i] = t[i]
          /\ \A i \in 1..a : IsSpace(raw[i])
          /\ \A i \in (a + Len(t) + 1)..Len(raw) : IsSpace(raw[i])

\* the first k texts, each but the first preceded by one space
RECURSIVE SpaceJoined(_, _)
SpaceJoined(texts, k) ==
    IF k = 0 THEN <<>>
    ELSE IF k = 1 THEN texts[1]
    ELSE SpaceJoined(texts, k - 1) \o <<" ">> \o texts[k]

\* C8: the success document maps the n engine segments one to one and in
\* order: n entries, entry i has id i (from 0) and the trimmed text of
\* segment i, segments_count is n, text is the trimmed texts joined by one
\* space; n = 0 gives text "", segments_count 0, duration 0, "completed".
C8_SegmentsImage ==
    ReturnedSuccess =>
        LET doc == result[1]
            n   == Len(segments_list)
        IN  /\ Len(doc.segments_json) = n
            /\ doc.segments_count = n
            /\ \A i \in 1..n :
                  /\ doc.segments_json[i].id = i - 1
                  /\ IsTrimOf(doc.segments_json[i].text, segments_list[i].text)
            /\ doc.text = SpaceJoined([i \in 1..n |-> doc.segments_json[i].text], n)
            /\ n = 0 => (doc.text = <<>> /\ doc.duration = 0
                         /\ doc.status = "completed")

\* C8 witness: a success document for two different engine segments, the
\* first of which had whitespace to trim.
C8_Witness ==
    /\ ReturnedSuccess
    /\ Len(segments_list) = 2
    /\ segments_list[1] # segments_list[2]
    /\ result[1].segments_json[1].text # segments_list[1].text
    /\ result[1].segments_json[2].text # <<>>

\* seconds * 1000 rounded to the nearest integer
NearestMs(m) == (m + 500) \div 1000

\* C9: start_ms and end_ms are the engine times in seconds multiplied by 1000
\* and rounded to the nearest integer.
C9_MsRoundedToNearest ==
    ReturnedSuccess =>
        \A i \in 1..Len(segments_list) :
            /\ result[1].segments_json[i].start_ms = NearestMs(segments_list[i].start)
            /\ result[1].segments_json[i].end_ms = NearestMs(segments_list[i].end)

\* the parts of C10 that do not concern a missing probability: words only
\* when requested and supplied, one entry per engine word, in order
WordsOnlyFromEngine(entry, seg) ==
    "words" \in DOMAIN entry =>
        /\ event.word_timestamps
        /\ seg.has_words
        /\ seg.words # <<>>
        /\ Len(entry.words) = Len(seg.words)
        /\ \A k \in 1..Len(seg.words) : entry.words[k].word = seg.words[k].word

\* C10 as stated: no fabricated word data, and a word entry has no
\* probability when the engine word supplies none.
C10_NoFabricatedWords_Original ==
    ReturnedSuccess =>
        \A i \in 1..Len(segments_list) :
            LET entry == result[1].segments_json[i]
                seg   == segments_list[i]
            IN  /\ WordsOnlyFromEngine(entry, seg)
                /\ "words" \in DOMAIN entry =>
                      \A k \in 1..Len(seg.words) :
                          ~seg.words[k].has_probability =>
                              "probability" \notin DOMAIN entry.words[k]

\* C10 amended: no fabricated word data, and a word entry whose engine word
\* supplies no probability carries probability None (JSON null), never a
\* number.
C10_NoFabricatedWords ==
    ReturnedSuccess =>
        \A i \in 1..Len(segments_list) :
            LET entry == result[1].segments_json[i]
                seg   == segments_list[i]
            IN  /\ WordsOnlyFromEngine(entry, seg)
                /\ "words" \in DOMAIN entry =>
                      \A k \in 1..Len(seg.words) :
                          ~seg.words[k].has_probability =>
                              /\ "probability" \in DOMAIN entry.words[k]
                              /\ entry.words[k].probability = <<>>

\* C10 witness: a returned segment carries words, one of which comes from an
\* engine word without probability.
C10_Witness ==
    /\ ReturnedSuccess
    /\ \E i \in 1..Len(segments_list) :
          /\ "words" \in DOMAIN result[1].segments_json[i]
          /\ \E k \in 1..Len(segments_list[i].words) :
                ~segments_list[i].words[k].has_probability

=============================================================================
